---- MODULE Spec2Model ----
(***************************************************************************)
(* Model of the advent-of-code-2021 solvers:                               *)
(*   day3.py  BitString and DiagnosticReport                               *)
(*   day2.py  Submarine / AimSubmarine instruction processing              *)
(*   day1.py  count_increases                                              *)
(* Python strings are sequences of one-character strings; a Python list    *)
(* is a sequence; a raised exception is the value Raise(name).             *)
(***************************************************************************)
EXTENDS Integers, Sequences, FiniteSets, TLC

VARIABLES
    b,            \* day3: the bits list of the BitString object in hand
    records,      \* day3: DiagnosticReport.records, a list of bits lists
    submarine,    \* day2: the submarine object [cls, position, depth, aim]
    ip,           \* day2: instructions consumed by calculate_submarine_norm
    input_list,   \* day1: the list handed to count_increases
    prog,         \* which script runs: "day3.BitString", "day3.Report", "day2", "day1"
    call,         \* the last call made: [op, args]
    ret           \* what that call returned (or raised)

vars == <<b, records, submarine, ip, input_list, prog, call, ret>>

\* ---------------------------------------------------------------- bounds
MaxLen == 3            \* longest text handed to BitString.from_str / length handed to from_int
MaxValue == 8          \* largest value handed to BitString.from_int
MaxBits == 2           \* longest record of a generated report
MaxRecords == 3        \* most records of a generated report
MaxInstructions == 4   \* longest instruction list
MaxInstrValue == 2     \* largest instruction value
MaxListLen == 4        \* longest list handed to count_increases
MaxMeasure == 1        \* measurements range over -1..MaxMeasure

\* ---------------------------------------------------------------- values
None == [kind |-> "None", v |-> 0]
Raise(e) == [kind |-> "raise", v |-> e]
IntVal(n) == [kind |-> "int", v |-> n]
Str(s) == [kind |-> "str", v |-> s]
BitString(bits) == [kind |-> "BitString", v |-> bits]
Call(op, args) == [op |-> op, args |-> args]

RECURSIVE Pow2(_)
Pow2(n) == IF n = 0 THEN 1 ELSE 2 * Pow2(n - 1)

RECURSIVE SumSeq(_)
\* Python's sum() over a list of ints
SumSeq(s) == IF s = <<>> THEN 0 ELSE Head(s) + SumSeq(Tail(s))

\* All sequences over S of length 0..n
SeqsUpTo(S, n) == UNION {[1..k -> S] : k \in 0..n}

\* ---------------------------------------------------------------- Python builtins
Chars == {"0", "1", "2", "x"}
DecimalDigits == {"0", "1", "2"}

\* int(c) for a one-character string: its digit value (ValueError is decided by the caller)
PyIntOfChar(c) == CASE c = "0" -> 0 [] c = "1" -> 1 [] c = "2" -> 2

\* str(n) for a one-digit int
PyStrOfDigit(n) == CASE n = 0 -> "0" [] n = 1 -> "1" [] n = 2 -> "2"

RECURSIVE PyIntBase2Value(_)
PyIntBase2Value(s) ==
    IF s = <<>> THEN 0
    ELSE 2 * PyIntBase2Value(SubSeq(s, 1, Len(s) - 1)) + PyIntOfChar(s[Len(s)])

\* int(s, 2): ValueError on the empty string or on a character that is no binary digit
PyIntBase2(s) ==
    IF s = <<>> \/ \E i \in 1..Len(s) : s[i] \notin {"0", "1"}
    THEN Raise("ValueError")
    ELSE IntVal(PyIntBase2Value(s))

RECURSIVE PyBin(_)
\* format(value, 'b') for value >= 0: the binary digits, at least one
PyBin(value) ==
    IF value < 2 THEN <<PyStrOfDigit(value)>>
    ELSE PyBin(value \div 2) \o <<PyStrOfDigit(value % 2)>>

\* f'{text:0>{width}}': fill with "0" on the left up to a MINIMUM width
PyPadLeft(text, width) ==
    IF Len(text) >= width THEN text
    ELSE [i \in 1..(width - Len(text)) |-> "0"] \o text

\* ---------------------------------------------------------------- day3: BitString
\* BitString.from_str(s): BitString([int(c) for c in list(s)])
from_str(s) ==
    IF \E i \in 1..Len(s) : s[i] \notin DecimalDigits
    THEN Raise("ValueError")
    ELSE BitString([i \in 1..Len(s) |-> PyIntOfChar(s[i])])

\* BitString.__repr__: ''.join([str(bit) for bit in self.bits])
BitString_repr(bits) == [i \in 1..Len(bits) |-> PyStrOfDigit(bits[i])]

\* BitString.__int__: int(''.join(...), 2)
BitString_int(bits) == PyIntBase2(BitString_repr(bits))

\* BitString.__len__
BitString_len(bits) == Len(bits)

\* BitString.get_bit(position): assert position < len(self.bits); self.bits[position]
\* (a negative index counts from the end of the list; below -len it is an IndexError)
get_bit(bits, position) ==
    IF ~(position < Len(bits)) THEN Raise("AssertionError")
    ELSE IF position >= 0 THEN IntVal(bits[position + 1])
    ELSE IF position >= -Len(bits) THEN IntVal(bits[Len(bits) + position + 1])
    ELSE Raise("IndexError")

\* faulty variant of flipped_bit: the test is on 1, so no digit changes
flipped_bit_same(bit) == IF bit = 1 THEN "1" ELSE "0"

\* the comprehension of flip: '1' if bit == 0 else '0'
flipped_bit(bit) == IF bit = 0 THEN "1" ELSE "0"

\* BitString.flip(): a new BitString from the flipped characters
flip(bits) == from_str([i \in 1..Len(bits) |-> flipped_bit(bits[i])])

\* faulty variant of int_repr: the width is dropped (f'{value:b}')
int_repr_nopad(value, length) == PyBin(value)

\* BitString.int_repr(value, length): f'{value:0>{length}b}'
int_repr(value, length) == PyPadLeft(PyBin(value), length)

\* BitString.from_int(value, length)
from_int(value, length) == from_str(int_repr(value, length))

\* ---------------------------------------------------------------- day3: DiagnosticReport
\* parse_input on already split and stripped lines: one BitString.from_str per line
parse_input(lines) == [i \in 1..Len(lines) |-> from_str(lines[i]).v]

\* DiagnosticReport.bit_length: len(self.records[0])
bit_length(recs) == BitString_len(recs[1])

\* sum(record.get_bit(i) for record in self.records), with i a 0-based position
ones(recs, i) == SumSeq([r \in 1..Len(recs) |-> get_bit(recs[r], i).v])

\* faulty variant of most_common_bit: >= for >, a tie resolves to 1
most_common_bit_ge(recs, i) == IF ones(recs, i) >= Len(recs) \div 2 THEN "1" ELSE "0"

\* '1' if ones > len(self.records) // 2 else '0'
most_common_bit(recs, i) == IF ones(recs, i) > Len(recs) \div 2 THEN "1" ELSE "0"

\* DiagnosticReport.gamma_rate
gamma_rate(recs) ==
    IF \E r \in 1..Len(recs) : \E i \in 0..(bit_length(recs) - 1) :
           get_bit(recs[r], i).kind = "raise"
    THEN Raise("AssertionError")
    ELSE LET bitstring == [k \in 1..bit_length(recs) |-> most_common_bit(recs, k - 1)]
         IN  BitString_int(from_str(bitstring).v)

\* DiagnosticReport.epsilon_rate
epsilon_rate(recs) ==
    LET gamma == gamma_rate(recs) IN
    IF gamma.kind = "raise" THEN gamma
    ELSE LET gamma_bitstring == from_int(gamma.v, bit_length(recs))
         IN  BitString_int(flip(gamma_bitstring.v).v)

\* faulty variant of power_consumption: gamma is used for both factors
power_consumption_gamma2(recs) ==
    LET gamma == gamma_rate(recs)
    IN  IF gamma.kind = "raise" THEN gamma ELSE IntVal(gamma.v * gamma.v)

\* DiagnosticReport.power_consumption
power_consumption(recs) ==
    LET gamma == gamma_rate(recs)
        epsilon == epsilon_rate(recs)
    IN  IF gamma.kind = "raise" THEN gamma
        ELSE IF epsilon.kind = "raise" THEN epsilon
        ELSE IntVal(gamma.v * epsilon.v)

\* the text of one input line, written by its digits
Line(t) == [i \in 1..Len(t) |-> PyStrOfDigit(t[i])]
\* the sample input of test_example_part1, split into lines
ExampleLines ==
    << Line(<<0,0,1,0,0>>), Line(<<1,1,1,1,0>>), Line(<<1,0,1,1,0>>), Line(<<1,0,1,1,1>>),
       Line(<<1,0,1,0,1>>), Line(<<0,1,1,1,1>>), Line(<<0,0,1,1,1>>), Line(<<1,1,1,0,0>>),
       Line(<<1,0,0,0,0>>), Line(<<1,1,0,0,1>>), Line(<<0,0,0,1,0>>), Line(<<0,1,0,1,0>>) >>

\* ---------------------------------------------------------------- day2: Submarine
\* Submarine() and AimSubmarine() as constructed; aim is read by AimSubmarine only
Submarine == [cls |-> "Submarine", position |-> 0, depth |-> 0, aim |-> 0]
AimSubmarine == [cls |-> "AimSubmarine", position |-> 0, depth |-> 0, aim |-> 0]

max(x, y) == IF x >= y THEN x ELSE y

\* Submarine.move_forward / AimSubmarine.move_forward
move_forward(s, value) ==
    IF s.cls = "AimSubmarine"
    THEN [s EXCEPT !.position = @ + value,
                   !.depth = max(0, @ + s.aim * value)]
    ELSE [s EXCEPT !.position = @ + value]

\* Submarine.move_down / AimSubmarine.move_down
move_down(s, value) ==
    IF s.cls = "AimSubmarine"
    THEN [s EXCEPT !.aim = @ + value]
    ELSE [s EXCEPT !.depth = @ + value]

\* faulty variant of move_up: the plain submarine's depth is not clamped
move_up_noclamp(s, value) ==
    IF s.cls = "AimSubmarine"
    THEN [s EXCEPT !.aim = @ - value]
    ELSE [s EXCEPT !.depth = @ - value]

\* Submarine.move_up / AimSubmarine.move_up
move_up(s, value) ==
    IF s.cls = "AimSubmarine"
    THEN [s EXCEPT !.aim = @ - value]
    ELSE [s EXCEPT !.depth = max(0, @ - value)]

\* Submarine.process_instruction: dispatch through instruction_map
process_instruction(s, type, value) ==
    CASE type = "FORWARD" -> move_forward(s, value)
      [] type = "DOWN" -> move_down(s, value)
      [] type = "UP" -> move_up(s, value)

\* Submarine.calculate_norm
calculate_norm(s) == s.position * s.depth

\* ---------------------------------------------------------------- day1
\* zip(a, b): pairs up to the shorter list
zip(a, c) == [i \in 1..(IF Len(a) <= Len(c) THEN Len(a) ELSE Len(c)) |-> <<a[i], c[i]>>]

\* input_list[1:]
slice_from_1(xs) == IF xs = <<>> THEN <<>> ELSE Tail(xs)

\* faulty variant of count_increases: >= for >
count_increases_ge(xs) ==
    LET pairs == zip(xs, slice_from_1(xs))
    IN  SumSeq([i \in 1..Len(pairs) |-> IF pairs[i][2] >= pairs[i][1] THEN 1 ELSE 0])

\* count_increases: sum(pair[1] > pair[0] for pair in zip(input_list, input_list[1:]))
count_increases(xs) ==
    LET pairs == zip(xs, slice_from_1(xs))
    IN  SumSeq([i \in 1..Len(pairs) |-> IF pairs[i][2] > pairs[i][1] THEN 1 ELSE 0])

\* ================================================================ state machine
\* texts the repository's own tests construct BitStrings from
GetBitTestText == Line(<<1,0,1,0>>)
FlipTestText == Line(<<1,0,1,0,1>>)

\* line lists a report is parsed from: the sample input and every small equal-width one
ReportInputs ==
    {ExampleLines} \cup
    UNION { UNION { [1..n -> [1..L -> {"0", "1"}]] : n \in 1..MaxRecords } : L \in 1..MaxBits }

Measurements == (-1)..MaxMeasure

InitBitString ==
    /\ prog = "day3.BitString"
    /\ \E s \in {<<>>, GetBitTestText, FlipTestText} :
          /\ b = from_str(s).v
          /\ call = Call("from_str", <<s>>)
          /\ ret = from_str(s)
    /\ records = <<>> /\ submarine = Submarine /\ ip = 0 /\ input_list = <<>>

InitReport ==
    /\ prog = "day3.Report"
    /\ \E lines \in ReportInputs : records = parse_input(lines)
    /\ call = Call("DiagnosticReport", <<>>)
    /\ ret = None
    /\ b = <<>> /\ submarine = Submarine /\ ip = 0 /\ input_list = <<>>

InitSubmarine ==
    /\ prog = "day2"
    /\ submarine \in {Submarine, AimSubmarine}
    /\ ip = 0
    /\ call = Call("calculate_submarine_norm", <<>>)
    /\ ret = None
    /\ b = <<>> /\ records = <<>> /\ input_list = <<>>

InitCount ==
    /\ prog = "day1"
    /\ input_list \in SeqsUpTo(Measurements, MaxListLen)
    /\ call = Call("parse_input", <<>>)
    /\ ret = None
    /\ b = <<>> /\ records = <<>> /\ submarine = Submarine /\ ip = 0

Init == InitBitString \/ InitReport \/ InitSubmarine \/ InitCount

\* ---- day3: BitString calls
\* b = BitString.from_str(s); b keeps its old value when the call raises
DoFromStr ==
    /\ prog = "day3.BitString"
    /\ \E s \in SeqsUpTo(Chars, MaxLen) :
          /\ call' = Call("from_str", <<s>>)
          /\ ret' = from_str(s)
          /\ b' = IF from_str(s).kind = "BitString" THEN from_str(s).v ELSE b
    /\ UNCHANGED <<records, submarine, ip, input_list, prog>>

\* b = BitString.from_int(value, length)
DoFromInt ==
    /\ prog = "day3.BitString"
    /\ \E value \in 0..MaxValue, length \in 0..MaxLen :
          /\ call' = Call("from_int", <<value, length>>)
          /\ ret' = from_int(value, length)
          /\ b' = IF from_int(value, length).kind = "BitString"
                  THEN from_int(value, length).v ELSE b
    /\ UNCHANGED <<records, submarine, ip, input_list, prog>>

\* b.get_bit(position)
DoGetBit ==
    /\ prog = "day3.BitString"
    /\ \E position \in (-Len(b) - 1)..(Len(b) + 1) :
          /\ call' = Call("get_bit", <<b, position>>)
          /\ ret' = get_bit(b, position)
    /\ UNCHANGED <<b, records, submarine, ip, input_list, prog>>

\* b.flip(): the result is a new object, b is not assigned
DoFlip ==
    /\ prog = "day3.BitString"
    /\ call' = Call("flip", <<b>>)
    /\ ret' = flip(b)
    /\ UNCHANGED <<b, records, submarine, ip, input_list, prog>>

\* int(b)
DoInt ==
    /\ prog = "day3.BitString"
    /\ call' = Call("__int__", <<b>>)
    /\ ret' = BitString_int(b)
    /\ UNCHANGED <<b, records, submarine, ip, input_list, prog>>

\* str(b)
DoRepr ==
    /\ prog = "day3.BitString"
    /\ call' = Call("__repr__", <<b>>)
    /\ ret' = Str(BitString_repr(b))
    /\ UNCHANGED <<b, records, submarine, ip, input_list, prog>>

\* len(b)
DoLen ==
    /\ prog = "day3.BitString"
    /\ call' = Call("__len__", <<b>>)
    /\ ret' = IntVal(BitString_len(b))
    /\ UNCHANGED <<b, records, submarine, ip, input_list, prog>>

\* ---- day3: DiagnosticReport properties
DoGammaRate ==
    /\ prog = "day3.Report"
    /\ call' = Call("gamma_rate", <<>>)
    /\ ret' = gamma_rate(records)
    /\ UNCHANGED <<b, records, submarine, ip, input_list, prog>>

DoEpsilonRate ==
    /\ prog = "day3.Report"
    /\ call' = Call("epsilon_rate", <<>>)
    /\ ret' = epsilon_rate(records)
    /\ UNCHANGED <<b, records, submarine, ip, input_list, prog>>

DoPowerConsumption ==
    /\ prog = "day3.Report"
    /\ call' = Call("power_consumption", <<>>)
    /\ ret' = power_consumption(records)
    /\ UNCHANGED <<b, records, submarine, ip, input_list, prog>>

\* ---- day2: one iteration of the loop of calculate_submarine_norm per instruction
ProcessForward ==
    /\ prog = "day2" /\ ret = None /\ ip < MaxInstructions
    /\ \E value \in 0..MaxInstrValue :
          /\ call' = Call("process_instruction", <<"FORWARD", value>>)
          /\ submarine' = process_instruction(submarine, "FORWARD", value)
    /\ ip' = ip + 1
    /\ UNCHANGED <<b, records, input_list, prog, ret>>

ProcessDown ==
    /\ prog = "day2" /\ ret = None /\ ip < MaxInstructions
    /\ \E value \in 0..MaxInstrValue :
          /\ call' = Call("process_instruction", <<"DOWN", value>>)
          /\ submarine' = process_instruction(submarine, "DOWN", value)
    /\ ip' = ip + 1
    /\ UNCHANGED <<b, records, input_list, prog, ret>>

ProcessUp ==
    /\ prog = "day2" /\ ret = None /\ ip < MaxInstructions
    /\ \E value \in 0..MaxInstrValue :
          /\ call' = Call("process_instruction", <<"UP", value>>)
          /\ submarine' = process_instruction(submarine, "UP", value)
    /\ ip' = ip + 1
    /\ UNCHANGED <<b, records, input_list, prog, ret>>

\* the loop is over: return submarine.calculate_norm()
ReturnNorm ==
    /\ prog = "day2"
    /\ ret = None
    /\ call' = Call("calculate_norm", <<>>)
    /\ ret' = IntVal(calculate_norm(submarine))
    /\ UNCHANGED <<b, records, submarine, ip, input_list, prog>>

\* ---- day1
DoCountIncreases ==
    /\ prog = "day1"
    /\ call' = Call("count_increases", <<input_list>>)
    /\ ret' = IntVal(count_increases(input_list))
    /\ UNCHANGED <<b, records, submarine, ip, input_list, prog>>

Next ==
    \/ DoFromStr \/ DoFromInt \/ DoGetBit \/ DoFlip \/ DoInt \/ DoRepr \/ DoLen
    \/ DoGammaRate \/ DoEpsilonRate \/ DoPowerConsumption
    \/ ProcessForward \/ ProcessDown \/ ProcessUp \/ ReturnNorm
    \/ DoCountIncreases

Spec == Init /\ [][Next]_vars

\* ================================================================ claims
IsBinary(bits) == \A i \in 1..Len(bits) : bits[i] \in {0, 1}

\* the value, most-significant digit first, of a list of 0/1 digits
ValueOf(digits) == SumSeq([i \in 1..Len(digits) |-> digits[i] * Pow2(Len(digits) - i)])

\* the strict-majority digit of column i (1-based), by counting records
MajorityDigit(recs, i) ==
    IF Cardinality({r \in 1..Len(recs) : recs[r][i] = 1}) > Len(recs) \div 2 THEN 1 ELSE 0

MajorityDigits(recs) == [i \in 1..Len(recs[1]) |-> MajorityDigit(recs, i)]

TieReport == << <<1, 0>>, <<0, 1>> >>

\* C1: gamma_rate is the value, most-significant digit first, of the digit string whose
\* digit at each position is 1 exactly when strictly more than floor(recordCount / 2)
\* records have a 1 there; the two records "10" and "01" give 0.
C1_GammaIsStrictMajority ==
    (prog = "day3.Report" /\ call.op = "gamma_rate") =>
        /\ ret = IntVal(ValueOf(MajorityDigits(records)))
        /\ (records = TieReport => ret.v = 0)

C1_Witness ==
    prog = "day3.Report" /\ call.op = "gamma_rate" /\ records = TieReport /\ ret = IntVal(0)

\* C2: epsilon_rate is the value of the bitwise complement of the L-digit majority string,
\* leading zeros included: (2^L - 1) - gamma_rate; the two records "10" and "01" give 3.
C2_EpsilonIsComplement ==
    (prog = "day3.Report" /\ call.op = "epsilon_rate") =>
        LET L == Len(records[1])
            maj == MajorityDigits(records)
        IN  /\ ret = IntVal(ValueOf([i \in 1..L |-> 1 - maj[i]]))
            /\ ret.v = (Pow2(L) - 1) - gamma_rate(records).v
            /\ (records = TieReport => ret.v = 3)

C2_Witness ==
    prog = "day3.Report" /\ call.op = "epsilon_rate" /\ records = TieReport /\ ret = IntVal(3)

\* C3: power_consumption is gamma_rate * epsilon_rate; on the 12-record sample the rates
\* are 22 and 9 and the product is 198.
C3_PowerIsProduct ==
    (prog = "day3.Report" /\ call.op = "power_consumption") =>
        LET m == ValueOf(MajorityDigits(records))
            L == Len(records[1])
        IN  /\ ret = IntVal(m * ((Pow2(L) - 1) - m))
            /\ ret.v = gamma_rate(records).v * epsilon_rate(records).v
            /\ (records = parse_input(ExampleLines) =>
                   /\ gamma_rate(records) = IntVal(22)
                   /\ epsilon_rate(records) = IntVal(9)
                   /\ ret.v = 198)

C3_Witness ==
    /\ prog = "day3.Report" /\ call.op = "power_consumption"
    /\ records = parse_input(ExampleLines) /\ ret = IntVal(198)

\* C4: for any length n and any v with 0 <= v < 2^n, from_int(v, n) has exactly n digits,
\* each 0 or 1, left-padded with zeros, and converts back to v.
C4_FromIntRoundTrip ==
    (prog = "day3.BitString" /\ call.op = "from_int"
        /\ call.args[1] < Pow2(call.args[2])) =>
        LET v == call.args[1]
            n == call.args[2]
        IN  /\ ret.kind = "BitString"
            /\ Len(ret.v) = n
            /\ IsBinary(ret.v)
            /\ \A i \in 1..Len(ret.v) : (Pow2(Len(ret.v) - i) > v => ret.v[i] = 0)
            /\ BitString_int(ret.v) = IntVal(v)

\* What from_int does satisfy: the digit count is the requested one for every length
\* n >= 1 (and 1 for n = 0), and the value converts back for every length.
FromIntRoundTripFromLengthOne ==
    (prog = "day3.BitString" /\ call.op = "from_int"
        /\ call.args[1] < Pow2(call.args[2])) =>
        LET v == call.args[1]
            n == call.args[2]
        IN  /\ ret.kind = "BitString"
            /\ Len(ret.v) = (IF n = 0 THEN 1 ELSE n)
            /\ IsBinary(ret.v)
            /\ \A i \in 1..Len(ret.v) : (Pow2(Len(ret.v) - i) > v => ret.v[i] = 0)
            /\ BitString_int(ret.v) = IntVal(v)

\* C5: from_int fails whenever value >= 2^length, and never returns a BitString whose
\* length differs from the requested length.
C5_FromIntRejectsOverflow ==
    (prog = "day3.BitString" /\ call.op = "from_int") =>
        /\ (call.args[1] >= Pow2(call.args[2]) => ret.kind = "raise")
        /\ (ret.kind = "BitString" => Len(ret.v) = call.args[2])

\* C6: from_str fails if any character is not '0' or '1' ('2' included), and every
\* BitString it returns holds only the digits 0 and 1.
C6_FromStrRejectsNonBinary ==
    (prog = "day3.BitString" /\ call.op = "from_str") =>
        LET s == call.args[1]
        IN  /\ ((\E i \in 1..Len(s) : s[i] \notin {"0", "1"}) => ret.kind = "raise")
            /\ (ret.kind = "BitString" => IsBinary(ret.v))

\* C7: get_bit(p) returns the digit at position p from the most-significant end when
\* 0 <= p < len, fails when p >= len, and never returns a digit for a position outside
\* 0..len-1.
C7_GetBitInRangeOnly ==
    (prog = "day3.BitString" /\ call.op = "get_bit") =>
        LET bits == call.args[1]
            p == call.args[2]
        IN  /\ (0 <= p /\ p < Len(bits) => ret = IntVal(bits[p + 1]))
            /\ (p >= Len(bits) => ret.kind = "raise")
            /\ (ret.kind = "int" => p \in 0..(Len(bits) - 1))

\* C8: on a BitString of 0/1 digits, flip returns a new BitString of the same length
\* whose every digit is 1 minus the original's, leaves the original unchanged, and
\* flipping the result gives back the original text ("10101" flips to "01010").
C8_FlipIsComplementInvolution ==
    (prog = "day3.BitString" /\ call.op = "flip" /\ IsBinary(call.args[1])) =>
        LET before == call.args[1]
        IN  /\ ret.kind = "BitString"
            /\ Len(ret.v) = Len(before)
            /\ \A i \in 1..Len(before) : ret.v[i] = 1 - before[i]
            /\ b = before
            /\ flip(ret.v).kind = "BitString"
            /\ BitString_repr(flip(ret.v).v) = BitString_repr(before)
            /\ (before = <<1, 0, 1, 0, 1>> => BitString_repr(ret.v) = Line(<<0, 1, 0, 1, 0>>))

C8_Witness ==
    /\ prog = "day3.BitString" /\ call.op = "flip"
    /\ b = <<1, 0, 1, 0, 1>> /\ ret = BitString(<<0, 1, 0, 1, 0>>)

\* one processed instruction that would take depth below 0 leaves it at exactly 0
ClampStep ==
    (prog = "day2" /\ ip' = ip + 1) =>
        LET type == call'.args[1]
            value == call'.args[2]
        IN  /\ (submarine.cls = "Submarine" /\ type = "UP" /\ submarine.depth - value < 0)
                  => submarine'.depth = 0
            /\ (submarine.cls = "AimSubmarine" /\ type = "FORWARD"
                   /\ submarine.depth + submarine.aim * value < 0)
                  => submarine'.depth = 0

\* C9: from a fresh Submarine or AimSubmarine, after any sequence of FORWARD/DOWN/UP
\* instructions with non-negative values depth >= 0 in every reached state, and an UP
\* (plain) or a FORWARD under negative aim (aim-based) that would take depth below 0
\* leaves depth at exactly 0.
C9_DepthNeverNegative ==
    /\ [](prog = "day2" => submarine.depth >= 0)
    /\ [][ClampStep]_vars

C9_Witness ==
    /\ prog = "day2" /\ submarine.cls = "AimSubmarine" /\ ip = 2
    /\ call = Call("process_instruction", <<"FORWARD", 1>>)
    /\ submarine.aim < 0 /\ submarine.depth = 0 /\ submarine.position = 1

\* C10: count_increases(xs) is the number of indices i with xs[i+1] > xs[i]; it is 0 for
\* a non-increasing list and for a list of fewer than two elements, and xs is unchanged.
C10_CountIncreases ==
    (prog = "day1" /\ call.op = "count_increases") =>
        LET xs == call.args[1]
        IN  /\ ret = IntVal(Cardinality({i \in 1..(Len(xs) - 1) : xs[i + 1] > xs[i]}))
            /\ ((\A i \in 1..(Len(xs) - 1) : xs[i + 1] <= xs[i]) => ret.v = 0)
            /\ (Len(xs) < 2 => ret.v = 0)
            /\ input_list = xs

C10_Witness ==
    /\ prog = "day1" /\ call.op = "count_increases"
    /\ input_list = <<-1, 0, 0, 1>> /\ ret = IntVal(2)

====
